---- MODULE Spec2Model ----
(***************************************************************************)
(* Model of biblemotif.py: the multi-word token matcher, the frequency     *)
(* accumulation of calc_freqs, the token check of main, calc_atfs and      *)
(* calc_scores.                                                            *)
(*                                                                         *)
(* A row of the corpus is the record [lemma, ccat4]: its 'lemma' field and *)
(* the character at index 4 of its 'ccat-parse' field (the only one the    *)
(* matcher reads).  A Counter is a function whose DOMAIN is the set of     *)
(* keys the Counter holds; a key stays in it when its count returns to 0.  *)
(* Floats are not evaluated in the pipeline: an augmented term frequency   *)
(* log2(1 + freq / max_freq) is kept as the pair <<freq, max_freq>>, an    *)
(* inverse mean 1 - mean(list) as the list, and a score as the list of     *)
(* its products with its divisor.  ScoresSpec evaluates calc_scores on     *)
(* doubles.                                                                *)
(***************************************************************************)
EXTENDS Integers, Sequences, FiniteSets, TLC

\* range(27) in calc_freqs, data[1:] in calc_atfs and calc_scores: books 1..NumBooks
NumBooks == 2
\* the number of rows the corpus yields over all the books
MaxStream == 5
\* the longest list of motif terms given to calc_scores in ScoresSpec
MaxTerms == 3

VARIABLES
    tokens,         \* main: the Token list read from --tokens
    stopwords,      \* main: the stopword list
    motif_terms,    \* main: the motif term list
    pc,             \* position in main
    err,            \* how the run ended, when it did not return 0
    i,              \* calc_freqs: the book being counted (i + 1 in the code)
    stream,         \* every row morphgnt_rows has yielded so far, in order
    row,            \* calc_freqs: the row of the current iteration
    token,          \* calc_freqs: index of the loop variable token (0: unbound)
    rows,           \* calc_freqs: the last result of token.matches
    row_queue,      \* calc_freqs: the window
    row_queue_len,  \* calc_freqs: its capacity
    freqs,          \* data[b]['freqs'], b = 0 for 'All'
    bk,             \* calc_atfs, calc_scores: the book of the current iteration
    all_atfs,       \* calc_atfs: lex -> list of atfs
    atfs,           \* data[b]['atfs']
    imatfs,         \* data[0]['imatfs']
    score           \* data[b]['score']

vars == <<tokens, stopwords, motif_terms, pc, err, i, stream, row, token, rows,
          row_queue, row_queue_len, freqs, bk, all_atfs, atfs, imatfs, score>>

----------------------------------------------------------------------------
\* Values

Row(l, c) == [lemma |-> l, ccat4 |-> c]

\* the rows the corpus can yield
RowTypes == {Row("a", "N"), Row("b", "N"), Row("b", "G"), Row("c", "N")}

Lemmas == {r.lemma : r \in RowTypes}

\* TDefTerm.__init__: 'lex' or 'lex:attrs'
Term(lex, attrs) == [lex |-> lex, attrs |-> attrs]

\* Token.__init__: 'name = tdef , tdef ...', each tdef a list of terms
Tok(name, tdefs) == [name |-> name, tdefs |-> tdefs]

\* Python's None, and a list l returned by a matches method
None == <<>>
Some(l) == <<l>>

\* Python's truth value of a matches result: None and [] are false
Truthy(r) == r # None /\ r[1] # <<>>

Max(S) == CHOOSE x \in S : \A y \in S : y <= x
Min(S) == CHOOSE x \in S : \A y \in S : x <= y

\* a double: the value m * 2^e, m a natural number given by its digits (see
\* the section on Python floats); the doubles 0.0 and 1.0
Dbl(m, e) == [m |-> m, e |-> e]
Zero == Dbl(<<>>, 0)
One == Dbl(<<0, 0, 0, 128>>, -52)

\* collections.Counter: a missing key reads as 0
Get(f, k) == IF k \in DOMAIN f THEN f[k] ELSE 0

\* collections.Counter: c[k] += d, which creates the key
Add(f, k, d) == IF k \in DOMAIN f THEN [f EXCEPT ![k] = @ + d] ELSE f @@ (k :> d)

----------------------------------------------------------------------------
\* The configurations main can read: tokens, stopwords, motif terms

Configs == <<
    \* no --tokens file
    [tokens |-> <<>>, stopwords |-> {}, motif_terms |-> <<"a">>],
    \* pair = a b
    [tokens |-> <<Tok("pair", <<  <<Term("a", {}), Term("b", {})>>  >>)>>,
     stopwords |-> {}, motif_terms |-> <<"pair", "c">>],
    \* dbl = a a
    [tokens |-> <<Tok("dbl", <<  <<Term("a", {}), Term("a", {})>>  >>)>>,
     stopwords |-> {}, motif_terms |-> <<"a">>],
    \* t1 = a b            t2 = * b , b          stopwords: c
    [tokens |-> <<Tok("t1", <<  <<Term("a", {}), Term("b", {})>>  >>),
                  Tok("t2", <<  <<Term("*", {}), Term("b", {})>>,
                                <<Term("b", {})>>  >>)>>,
     stopwords |-> {"c"}, motif_terms |-> <<"t1", "c">>],
    \* sog = a b:G         stopwords: c
    [tokens |-> <<Tok("sog", <<  <<Term("a", {}), Term("b", {"G"})>>  >>)>>,
     stopwords |-> {"c"}, motif_terms |-> <<>>],
    \* alt = b , a b ,     (the last alternative is empty)
    [tokens |-> <<Tok("alt", <<  <<Term("b", {})>>,
                                 <<Term("a", {}), Term("b", {})>>,
                                 <<>>  >>)>>,
     stopwords |-> {}, motif_terms |-> <<"alt", "b">>]
>>

----------------------------------------------------------------------------
\* The matcher

\* TDefTerm.matches
TDefTermMatches(term, r) ==
    IF term.lex = "*" THEN TRUE
    ELSE IF term.lex # r.lemma THEN FALSE
    ELSE IF "G" \in term.attrs /\ r.ccat4 # "G" THEN FALSE
    ELSE TRUE

\* rows[-n:] of Python: the last n elements, and the whole list when n = 0
\* or n >= len(rows)
LastN(q, n) ==
    IF n = 0 \/ n >= Len(q) THEN q ELSE SubSeq(q, Len(q) - n + 1, Len(q))

\* TDef.matches
TDefMatches(terms, q) ==
    LET sub == LastN(q, Len(terms)) IN
    IF Len(sub) # Len(terms) THEN None
    ELSE IF \E k \in 1..Len(sub) : ~TDefTermMatches(terms[k], sub[k]) THEN None
    ELSE Some(sub)

\* Token.matches: the result of the first tdef whose result is true
TokenMatches(tok, q) ==
    LET hits == {k \in 1..Len(tok.tdefs) : Truthy(TDefMatches(tok.tdefs[k], q))} IN
    IF hits = {} THEN None ELSE TDefMatches(tok.tdefs[Min(hits)], q)

\* Token.max_size
max_size(tok) == Max({Len(tok.tdefs[k]) : k \in 1..Len(tok.tdefs)})

\* the loop over tokens without its break: the last matching token wins
LastMatch(toks, q) ==
    LET hits == {t \in 1..Len(toks) : Truthy(TokenMatches(toks[t], q))} IN
    IF hits = {} THEN 0 ELSE Max(hits)

\* calc_freqs: the token the loop over tokens breaks at, 0 when it runs out
FirstMatch(toks, q) ==
    LET hits == {t \in 1..Len(toks) : Truthy(TokenMatches(toks[t], q))} IN
    IF hits = {} THEN 0 ELSE Min(hits)

\* the stopword test left out
NeverStopword(lex, stops) == FALSE

\* calc_freqs: lex in stopwords
IsStopword(lex, stops) == lex \in stops

\* the window popped one row too early
EnqueueOffByOne(q, r, cap) ==
    LET q1 == Append(q, r) IN
    IF Len(q1) >= cap THEN SubSeq(q1, 2, Len(q1)) ELSE q1

\* calc_freqs: row_queue.append(row), then pop(0) when over the capacity
Enqueue(q, r, cap) ==
    LET q1 == Append(q, r) IN
    IF Len(q1) > cap THEN SubSeq(q1, 2, Len(q1)) ELSE q1

\* calc_freqs: all_books['freqs'][lex] += 1; book['freqs'][lex] += 1
CountLex(fr, b, lex) ==
    [fr EXCEPT ![0] = Add(@, lex, 1), ![b] = Add(@, lex, 1)]

\* the decrement of all_books['freqs'] left out
RECURSIVE ConsumeBookOnly(_, _, _)
ConsumeBookOnly(fr, b, matched) ==
    IF matched = <<>> THEN fr
    ELSE ConsumeBookOnly([fr EXCEPT ![b] = Add(@, Head(matched).lemma, -1)],
                         b, Tail(matched))

\* calc_freqs: the loop over the matched rows, one row
RECURSIVE Consume(_, _, _)
Consume(fr, b, matched) ==
    IF matched = <<>> THEN fr
    ELSE Consume([fr EXCEPT ![0] = Add(@, Head(matched).lemma, -1),
                            ![b] = Add(@, Head(matched).lemma, -1)],
                 b, Tail(matched))

\* only the newest matched row given back
ApplyMatchNewestOnly(fr, b, matched, name) ==
    LET fr1 == Consume(fr, b, <<matched[Len(matched)]>>) IN
    [fr1 EXCEPT ![0] = Add(@, name, 1), ![b] = Add(@, name, 1)]

\* calc_freqs: the body of 'if rows:', for the rows matched and the token's name
ApplyMatch(fr, b, matched, name) ==
    LET fr1 == Consume(fr, b, matched) IN
    [fr1 EXCEPT ![0] = Add(@, name, 1), ![b] = Add(@, name, 1)]

\* math.log2(1 + freq / max_freq) is defined when 1 + freq / max_freq > 0
Log2Defined(freq, max_freq) ==
    IF max_freq > 0 THEN max_freq + freq > 0 ELSE max_freq + freq < 0

\* .get(term, 1) for .get(term, 0)
ScoreTermsDefaultOne(book_atfs, weights, terms) ==
    [k \in 1..Len(terms) |->
        <<IF terms[k] \in DOMAIN book_atfs THEN book_atfs[terms[k]] ELSE One,
          weights[terms[k]]>>]

\* calc_scores: for each term in order, book['atfs'].get(term, 0) and
\* data[0]['imatfs'][term], the two factors of the product added to score
ScoreTerms(book_atfs, weights, terms) ==
    [k \in 1..Len(terms) |->
        <<IF terms[k] \in DOMAIN book_atfs THEN book_atfs[terms[k]] ELSE Zero,
          weights[terms[k]]>>]

----------------------------------------------------------------------------
\* The run of main

Init ==
    /\ \E c \in 1..Len(Configs) :
        /\ tokens = Configs[c].tokens
        /\ stopwords = Configs[c].stopwords
        /\ motif_terms = Configs[c].motif_terms
    /\ pc = "start"
    /\ err = ""
    /\ i = 0
    /\ stream = <<>>
    /\ row = None
    /\ token = 0
    /\ rows = None
    /\ row_queue = <<>>
    /\ row_queue_len = 0
    /\ freqs = <<>>
    /\ bk = 0
    /\ all_atfs = <<>>
    /\ atfs = <<>>
    /\ imatfs = <<>>
    /\ score = <<>>

\* an uncaught exception, or main's 'return 1'
Fail(e) ==
    /\ pc' = "error"
    /\ err' = e

\* calc_freqs, up to the loop over the books; max() of no token raises
Start ==
    /\ pc = "start"
    /\ IF tokens = <<>>
       THEN /\ Fail("ValueError")
            /\ UNCHANGED <<row_queue_len, freqs>>
       ELSE /\ row_queue_len' = Max({max_size(tokens[t]) : t \in 1..Len(tokens)})
            /\ freqs' = (0 :> <<>>)
            /\ pc' = "books"
            /\ err' = err
    /\ UNCHANGED <<tokens, stopwords, motif_terms, i, stream, row, token, rows,
                   row_queue, bk, all_atfs, atfs, imatfs, score>>

\* calc_freqs: the next book; book['freqs'] = collections.Counter()
NextBook ==
    /\ pc = "books"
    /\ i < NumBooks
    /\ i' = i + 1
    /\ freqs' = freqs @@ ((i + 1) :> <<>>)
    /\ pc' = "rows"
    /\ UNCHANGED <<tokens, stopwords, motif_terms, err, stream, row, token, rows,
                   row_queue, row_queue_len, bk, all_atfs, atfs, imatfs, score>>

\* calc_freqs: a row whose lemma is a stopword ('continue')
SkipStopword(r) ==
    /\ pc = "rows"
    /\ Len(stream) < MaxStream
    /\ IsStopword(r.lemma, stopwords)
    /\ stream' = Append(stream, r)
    /\ row' = Some(r)
    /\ UNCHANGED <<tokens, stopwords, motif_terms, pc, err, i, token, rows,
                   row_queue, row_queue_len, freqs, bk, all_atfs, atfs, imatfs,
                   score>>

\* calc_freqs: the loop body for any other row
CountRow(r) ==
    /\ pc = "rows"
    /\ Len(stream) < MaxStream
    /\ ~IsStopword(r.lemma, stopwords)
    /\ stream' = Append(stream, r)
    /\ row' = Some(r)
    /\ LET q == Enqueue(row_queue, r, row_queue_len)
           t == FirstMatch(tokens, q)
           counted == CountLex(freqs, i, r.lemma)
       IN /\ row_queue' = q
          /\ IF t = 0
             THEN /\ token' = Len(tokens)
                  /\ rows' = TokenMatches(tokens[Len(tokens)], q)
                  /\ freqs' = counted
             ELSE /\ token' = t
                  /\ rows' = TokenMatches(tokens[t], q)
                  /\ freqs' = ApplyMatch(counted, i, TokenMatches(tokens[t], q)[1],
                                         tokens[t].name)
    /\ UNCHANGED <<tokens, stopwords, motif_terms, pc, err, i, row_queue_len, bk,
                   all_atfs, atfs, imatfs, score>>

\* calc_freqs: morphgnt_rows(i + 1) is exhausted
EndBook ==
    /\ pc = "rows"
    /\ pc' = "books"
    /\ UNCHANGED <<tokens, stopwords, motif_terms, err, i, stream, row, token, rows,
                   row_queue, row_queue_len, freqs, bk, all_atfs, atfs, imatfs,
                   score>>

\* calc_freqs returns; main: 'Token not found' and return 1, or go on
CheckTokens ==
    /\ pc = "books"
    /\ i = NumBooks
    /\ IF \E t \in 1..Len(tokens) : tokens[t].name \notin DOMAIN freqs[0]
       THEN /\ Fail("return 1")
            /\ UNCHANGED bk
       ELSE /\ pc' = "atfs"
            /\ bk' = 1
            /\ err' = err
    /\ UNCHANGED <<tokens, stopwords, motif_terms, i, stream, row, token, rows,
                   row_queue, row_queue_len, freqs, all_atfs, atfs, imatfs, score>>

\* calc_atfs: one book of the loop over data[1:]
AtfsBook ==
    /\ pc = "atfs"
    /\ bk <= NumBooks
    /\ LET fr == freqs[bk]
           keys == DOMAIN fr
           max_freq == Max({fr[k] : k \in keys})
       IN IF keys = {}
          THEN /\ Fail("IndexError")
               /\ UNCHANGED <<bk, all_atfs, atfs>>
          ELSE IF max_freq = 0
          THEN /\ Fail("ZeroDivisionError")
               /\ UNCHANGED <<bk, all_atfs, atfs>>
          ELSE IF \E k \in keys : ~Log2Defined(fr[k], max_freq)
          THEN /\ Fail("ValueError")
               /\ UNCHANGED <<bk, all_atfs, atfs>>
          ELSE /\ atfs' = atfs @@ (bk :> [k \in keys |-> <<fr[k], max_freq>>])
               /\ all_atfs' =
                    [lex \in DOMAIN all_atfs \cup keys |->
                        IF lex \in keys
                        THEN Append(IF lex \in DOMAIN all_atfs
                                    THEN all_atfs[lex] ELSE <<>>,
                                    <<fr[lex], max_freq>>)
                        ELSE all_atfs[lex]]
               /\ bk' = bk + 1
               /\ UNCHANGED <<pc, err>>
    /\ UNCHANGED <<tokens, stopwords, motif_terms, i, stream, row, token, rows,
                   row_queue, row_queue_len, freqs, imatfs, score>>

\* calc_atfs: avg_atfs[lex] = 1 - statistics.mean(all_atfs[lex]), and return
AvgAtfs ==
    /\ pc = "atfs"
    /\ bk > NumBooks
    /\ imatfs' = all_atfs
    /\ pc' = "scores"
    /\ bk' = 1
    /\ UNCHANGED <<tokens, stopwords, motif_terms, err, i, stream, row, token, rows,
                   row_queue, row_queue_len, freqs, all_atfs, atfs, score>>

\* calc_scores: one book of the loop over data[1:]
ScoreBook ==
    /\ pc = "scores"
    /\ bk <= NumBooks
    /\ IF \E k \in 1..Len(motif_terms) : motif_terms[k] \notin DOMAIN imatfs
       THEN /\ Fail("KeyError")
            /\ UNCHANGED <<bk, score>>
       ELSE IF motif_terms = <<>>
       THEN /\ Fail("ZeroDivisionError")
            /\ UNCHANGED <<bk, score>>
       ELSE /\ score' = score @@
                    (bk :> [products |-> ScoreTerms(atfs[bk], imatfs, motif_terms),
                            n |-> Len(motif_terms)])
            /\ bk' = bk + 1
            /\ UNCHANGED <<pc, err>>
    /\ UNCHANGED <<tokens, stopwords, motif_terms, i, stream, row, token, rows,
                   row_queue, row_queue_len, freqs, all_atfs, atfs, imatfs>>

\* calc_scores returns; main prints the scores and returns 0
Finish ==
    /\ pc = "scores"
    /\ bk > NumBooks
    /\ pc' = "done"
    /\ UNCHANGED <<tokens, stopwords, motif_terms, err, i, stream, row, token, rows,
                   row_queue, row_queue_len, freqs, bk, all_atfs, atfs, imatfs,
                   score>>

Next ==
    \/ Start
    \/ NextBook
    \/ \E r \in RowTypes : SkipStopword(r)
    \/ \E r \in RowTypes : CountRow(r)
    \/ EndBook
    \/ CheckTokens
    \/ AtfsBook
    \/ AvgAtfs
    \/ ScoreBook
    \/ Finish

Spec == Init /\ [][Next]_vars

----------------------------------------------------------------------------
\* Python floats.  A natural number is the list of its digits in base 2^15,
\* lowest first, without leading zeros.  A double x >= 0 is Zero or
\* [m, e] with x = m * 2^e and m of exactly Precision bits.  Every operation
\* rounds its exact result to the nearest double, ties to even.

Precision == 53

Base == 2 ^ 15

RECURSIVE Pow2(_)
Pow2(k) == IF k = 0 THEN 1 ELSE 2 * Pow2(k - 1)

RECURSIVE Trim(_)
Trim(a) ==
    IF a # <<>> /\ a[Len(a)] = 0 THEN Trim(SubSeq(a, 1, Len(a) - 1)) ELSE a

Rest(a) == IF a = <<>> THEN <<>> ELSE Tail(a)
Low(a) == IF a = <<>> THEN 0 ELSE Head(a)

RECURSIVE BigAddC(_, _, _)
BigAddC(a, b, c) ==
    IF a = <<>> /\ b = <<>> THEN (IF c = 0 THEN <<>> ELSE <<c>>)
    ELSE LET x == Low(a) + Low(b) + c IN
         <<x % Base>> \o BigAddC(Rest(a), Rest(b), x \div Base)

BigAdd(a, b) == BigAddC(a, b, 0)

\* a * d + c for a digit d
RECURSIVE BigMulSmall(_, _, _)
BigMulSmall(a, d, c) ==
    IF a = <<>> THEN (IF c = 0 THEN <<>> ELSE <<c>>)
    ELSE LET x == Head(a) * d + c IN
         <<x % Base>> \o BigMulSmall(Tail(a), d, x \div Base)

RECURSIVE BigMul(_, _)
BigMul(a, b) ==
    IF a = <<>> \/ b = <<>> THEN <<>>
    ELSE BigAdd(BigMulSmall(a, Head(b), 0), Trim(<<0>> \o BigMul(a, Tail(b))))

\* the digits k..1 of a divided by n < 2^16, with the remainder rem carried in
RECURSIVE BigDivStep(_, _, _, _)
BigDivStep(a, n, k, rem) ==
    IF k = 0 THEN [q |-> <<>>, r |-> rem]
    ELSE LET x == rem * Base + a[k]
             lower == BigDivStep(a, n, k - 1, x % n)
         IN [q |-> Append(lower.q, x \div n), r |-> lower.r]

BigDivSmall(a, n) ==
    LET d == BigDivStep(a, n, Len(a), 0) IN [q |-> Trim(d.q), r |-> d.r]

RECURSIVE BigLess(_, _, _)
BigLess(a, b, k) ==
    IF k = 0 THEN FALSE
    ELSE IF a[k] # b[k] THEN a[k] < b[k]
    ELSE BigLess(a, b, k - 1)

BigLeq(a, b) ==
    IF Len(a) # Len(b) THEN Len(a) < Len(b) ELSE ~BigLess(b, a, Len(a))

ShiftLeft(a, k) ==
    IF a = <<>> THEN <<>>
    ELSE [j \in 1..(k \div 15) |-> 0] \o BigMulSmall(a, Pow2(k % 15), 0)

ShiftRight(a, k) ==
    IF Len(a) <= k \div 15 THEN <<>>
    ELSE BigDivSmall(SubSeq(a, (k \div 15) + 1, Len(a)), Pow2(k % 15)).q

RECURSIVE Bits(_)
Bits(x) == IF x = 0 THEN 0 ELSE 1 + Bits(x \div 2)

BitLength(a) == IF a = <<>> THEN 0 ELSE (Len(a) - 1) * 15 + Bits(a[Len(a)])

Odd(a) == Low(a) % 2 = 1

\* the double nearest to m * 2^e, ties to even
Nearest(m, e) ==
    IF m = <<>> THEN Zero
    ELSE LET len == BitLength(m) IN
         IF len <= Precision
         THEN Dbl(ShiftLeft(m, Precision - len), e - (Precision - len))
         ELSE LET k == len - Precision
                  q2 == ShiftRight(m, k - 1)
                  q == ShiftRight(q2, 1)
                  sticky == ShiftLeft(q2, k - 1) # m
                  up == Odd(q2) /\ (sticky \/ Odd(q))
                  r == IF up THEN BigAdd(q, <<1>>) ELSE q
              IN IF BitLength(r) > Precision
                 THEN Dbl(ShiftRight(r, 1), e + k + 1)
                 ELSE Dbl(r, e + k)

\* exact product and sum of the values m * 2^e of two records
XMul(x, y) == [m |-> BigMul(x.m, y.m), e |-> x.e + y.e]

XAdd(x, y) ==
    IF x.m = <<>> THEN y
    ELSE IF y.m = <<>> THEN x
    ELSE LET e == IF x.e < y.e THEN x.e ELSE y.e IN
         [m |-> BigAdd(ShiftLeft(x.m, x.e - e), ShiftLeft(y.m, y.e - e)), e |-> e]

\* float * float, float + float
FMul(x, y) == LET z == XMul(x, y) IN Nearest(z.m, z.e)

FAdd(x, y) == LET z == XAdd(x, y) IN Nearest(z.m, z.e)

\* float / int, for an int 0 < n < 2^15 (the quotient to 30 more bits, and
\* one last bit that tells whether a remainder is left)
FDivInt(x, n) ==
    IF x.m = <<>> THEN Zero
    ELSE LET d == BigDivSmall(ShiftLeft(x.m, 30), n) IN
         Nearest(BigMulSmall(d.q, 2, IF d.r = 0 THEN 0 ELSE 1), x.e - 31)

----------------------------------------------------------------------------
\* calc_scores evaluated on doubles

ScoreKeys == {"x", "y", "z"}

\* tables book['atfs'] that calc_atfs leaves: for the books [x] and [x, w, w]
\* (atf 1.0, and 0.5 with w the most frequent lemma), and for the books
\* [z y w x z x x x w x] and [y v x w y v v w y], whose atfs are 1.0 for x,
\* log2(1 + 1/5) for y, log2(1 + 2/5) for z, and log2(1 + 1/3) for x, 1.0 for y
AtfTables == <<
    [x |-> Dbl(<<0, 0, 0, 128>>, -52)],
    [x |-> Dbl(<<0, 0, 0, 128>>, -53)],
    [x |-> Dbl(<<0, 0, 0, 128>>, -52),
     y |-> Dbl(<<23062, 1379, 22073, 134>>, -54),
     z |-> Dbl(<<1498, 23974, 17646, 248>>, -54)],
    [x |-> Dbl(<<2653, 25346, 16357, 212>>, -54),
     y |-> Dbl(<<0, 0, 0, 128>>, -52)]
>>

\* the corpus whose books have these tables in this order, from table r on
AtfsOfBooks(r) ==
    [b \in 1..NumBooks |-> AtfTables[((r + b - 2) % Len(AtfTables)) + 1]]

\* the tables data[0]['imatfs']: 0.25 for x, and the weights calc_atfs
\* computes for the last two books above
WeightTables == {
    [x |-> Dbl(<<0, 0, 0, 128>>, -54)],
    [x |-> Dbl(<<31442, 3710, 24589, 149>>, -54),
     y |-> Dbl(<<4852, 15694, 21731, 188>>, -54),
     z |-> Dbl(<<32019, 20780, 23944, 131>>, -53)]
}

SeqsUpTo(S, n) == UNION {[1..m -> S] : m \in 0..n}

\* calc_scores: score = 0, then score += atf * imatf for each term in order
RECURSIVE SumProducts(_)
SumProducts(products) ==
    IF products = <<>> THEN Zero
    ELSE LET n == Len(products) IN
         FAdd(SumProducts(SubSeq(products, 1, n - 1)),
              FMul(products[n][1], products[n][2]))

\* calc_scores: the score of one book, score /= len(terms) included
BookScore(book_atfs, weights, terms) ==
    FDivInt(SumProducts(ScoreTerms(book_atfs, weights, terms)), Len(terms))

ScoresInit ==
    /\ \E r \in 1..Len(AtfTables) : atfs = AtfsOfBooks(r)
    /\ imatfs \in WeightTables
    /\ motif_terms \in SeqsUpTo(ScoreKeys, MaxTerms)
    /\ pc = "scores"
    /\ bk = 1
    /\ score = <<>>
    /\ err = ""
    /\ tokens = <<>>
    /\ stopwords = {}
    /\ i = NumBooks
    /\ stream = <<>>
    /\ row = None
    /\ token = 0
    /\ rows = None
    /\ row_queue = <<>>
    /\ row_queue_len = 0
    /\ freqs = <<>>
    /\ all_atfs = <<>>

\* calc_scores: one book of the loop over data[1:], the score evaluated
CalcScoresBook ==
    /\ pc = "scores"
    /\ bk <= NumBooks
    /\ IF \E k \in 1..Len(motif_terms) : motif_terms[k] \notin DOMAIN imatfs
       THEN /\ Fail("KeyError")
            /\ UNCHANGED <<bk, score>>
       ELSE IF motif_terms = <<>>
       THEN /\ Fail("ZeroDivisionError")
            /\ UNCHANGED <<bk, score>>
       ELSE /\ score' = score @@ (bk :> BookScore(atfs[bk], imatfs, motif_terms))
            /\ bk' = bk + 1
            /\ UNCHANGED <<pc, err>>
    /\ UNCHANGED <<tokens, stopwords, motif_terms, i, stream, row, token, rows,
                   row_queue, row_queue_len, freqs, all_atfs, atfs, imatfs>>

ScoresNext ==
    \/ CalcScoresBook
    \/ Finish

ScoresSpec == ScoresInit /\ [][ScoresNext]_vars

----------------------------------------------------------------------------
\* Properties

TokenNames == {tokens[t].name : t \in 1..Len(tokens)}

Keys == Lemmas \cup TokenNames

\* the books whose table exists
Books == DOMAIN freqs \ {0}

RECURSIVE SumBooks(_, _)
SumBooks(key, B) ==
    IF B = {} THEN 0
    ELSE LET b == CHOOSE x \in B : TRUE IN
         Get(freqs[b], key) + SumBooks(key, B \ {b})

\* the number of rows of lemma key in a list of rows
Occurrences(list, key) == Cardinality({k \in 1..Len(list) : list[k].lemma = key})

\* the rows of the stream that are no stopwords
NonStop == SelectSeq(stream, LAMBDA r : r.lemma \notin stopwords)

\* a step of calc_freqs that takes a row which is no stopword
CountStep ==
    /\ pc = "rows"
    /\ Len(stream') = Len(stream) + 1
    /\ row'[1].lemma \notin stopwords

\* a step of calc_freqs that takes a stopword row
StopStep ==
    /\ pc = "rows"
    /\ Len(stream') = Len(stream) + 1
    /\ row'[1].lemma \in stopwords

\* calc_freqs has returned
Counted == (pc = "books" /\ i = NumBooks) \/ pc \in {"atfs", "scores", "done"}

\* C1: in every state of the counting pass, and after it, the 'All' count of
\* every lemma and token name is the sum of its counts over the books' tables.
C1_Conservation ==
    0 \in DOMAIN freqs =>
        \A key \in Keys : Get(freqs[0], key) = SumBooks(key, Books)

\* a match in book 2 that gave back a row counted in book 1
C1_Witness ==
    /\ i = 2
    /\ Truthy(rows)
    /\ \E l \in Lemmas :
        /\ Get(freqs[1], l) = 1
        /\ Get(freqs[2], l) = -1
        /\ Get(freqs[0], l) = 0

\* C2 (as claimed): when a motif term or a token name has no entry in the
\* 'All' table after the counting pass, the run goes on neither to calc_atfs
\* nor to calc_scores, ends with main's 'return 1', and no book has a score.
C2_MissingNameStopsRun ==
    LET missing ==
            \/ \E k \in 1..Len(motif_terms) : motif_terms[k] \notin DOMAIN freqs[0]
            \/ \E t \in 1..Len(tokens) : tokens[t].name \notin DOMAIN freqs[0]
    IN (0 \in DOMAIN freqs /\ missing) =>
            /\ pc \notin {"atfs", "scores", "done"}
            /\ pc = "error" => err = "return 1"
            /\ score = <<>>

\* C3: a step that counts a row applies the first alternative of the first
\* token that matches the window, and nothing of any other token: that
\* token's name goes up by one in 'All' and in the book, every other token
\* name keeps its counts, and without a matching token no name changes.
C3_FirstMatchWins ==
    [][CountStep =>
        LET q == row_queue'
            M == {t \in 1..Len(tokens) :
                    \E k \in 1..Len(tokens[t].tdefs) :
                        Truthy(TDefMatches(tokens[t].tdefs[k], q))}
            Same(name) == /\ Get(freqs'[0], name) = Get(freqs[0], name)
                          /\ Get(freqs'[i], name) = Get(freqs[i], name)
        IN IF M = {}
           THEN /\ \A name \in TokenNames : Same(name)
                /\ ~Truthy(rows')
           ELSE LET t0 == Min(M)
                    K == {k \in 1..Len(tokens[t0].tdefs) :
                            Truthy(TDefMatches(tokens[t0].tdefs[k], q))}
                    k0 == Min(K)
                    n0 == Len(tokens[t0].tdefs[k0])
                IN /\ token' = t0
                   /\ rows' = Some(SubSeq(q, Len(q) - n0 + 1, Len(q)))
                   /\ Get(freqs'[0], tokens[t0].name) = Get(freqs[0], tokens[t0].name) + 1
                   /\ Get(freqs'[i], tokens[t0].name) = Get(freqs[i], tokens[t0].name) + 1
                   /\ \A name \in TokenNames \ {tokens[t0].name} : Same(name)
    ]_vars

\* the window matches both tokens and the first one was applied
C3_Witness ==
    /\ pc = "rows"
    /\ Len(tokens) = 2
    /\ token = 1
    /\ Truthy(rows)
    /\ Truthy(TokenMatches(tokens[2], row_queue))
    /\ Get(freqs[0], tokens[1].name) = 1
    /\ Get(freqs[0], tokens[2].name) = 0

\* C4: a step that takes a stopword row changes no count, leaves the window
\* as it is and evaluates no token.
C4_StopwordSkipped ==
    [][StopStep =>
        /\ freqs' = freqs
        /\ row_queue' = row_queue
        /\ token' = token
        /\ rows' = rows
    ]_vars

\* a token matched two rows that have a stopword row between them
C4_Witness ==
    LET n == Len(stream) IN
    /\ n >= 3
    /\ stream[n - 1].lemma \in stopwords
    /\ stream[n - 2].lemma \notin stopwords
    /\ row = Some(stream[n])
    /\ Truthy(rows)
    /\ rows[1] = <<stream[n - 2], stream[n]>>

\* C5: a step whose window matches a token alternative of length N takes one
\* from the 'All' count and from the count in the table of the book being
\* counted for each of the N matched rows' lemmas, adds one to the token's
\* name in both, counts the new row, and changes nothing else; with the token
\* pair = a b, no stopwords and one book [a, b, c] the book ends with
\* pair = 1, c = 1 and 0 for a and b.
C5_Absorption ==
    /\ [][(CountStep /\ Truthy(rows')) =>
            LET m == rows'[1]
                name == tokens[token'].name
                Delta(key) == (IF key = row'[1].lemma THEN 1 ELSE 0)
                              - Occurrences(m, key)
                              + (IF key = name THEN 1 ELSE 0)
            IN /\ \A key \in Keys :
                    /\ Get(freqs'[0], key) = Get(freqs[0], key) + Delta(key)
                    /\ Get(freqs'[i], key) = Get(freqs[i], key) + Delta(key)
               /\ DOMAIN freqs'[0] \subseteq Keys
               /\ \A b \in Books \ {i} : freqs'[b] = freqs[b]
         ]_vars
    /\ []((/\ tokens = Configs[2].tokens
           /\ stopwords = {}
           /\ i = 1
           /\ stream = <<Row("a", "N"), Row("b", "N"), Row("c", "N")>>)
          => freqs[1] = [a |-> 0, b |-> 0, c |-> 1, pair |-> 1])

\* the book [a, b, c] counted with the token pair = a b
C5_Witness ==
    /\ tokens = Configs[2].tokens
    /\ i = 1
    /\ stream = <<Row("a", "N"), Row("b", "N"), Row("c", "N")>>
    /\ Get(freqs[1], "pair") = 1

\* C6 (as claimed): without tokens and stopwords calc_freqs completes, the
\* count of a lemma is the number of its rows, and the book [a, a, a, b]
\* has a = 3, b = 1 and the largest count 3.
C6_NoTokensCounts ==
    (tokens = <<>> /\ stopwords = {}) =>
        /\ pc # "error"
        /\ 0 \in DOMAIN freqs =>
              \A l \in Lemmas : Get(freqs[0], l) = Occurrences(stream, l)
        /\ (i = 1 /\ stream = <<Row("a", "N"), Row("a", "N"), Row("a", "N"),
                                Row("b", "N")>>)
              => /\ freqs[1] = [a |-> 3, b |-> 1]
                 /\ Max({freqs[1][k] : k \in DOMAIN freqs[1]}) = 3

\* C7 (as claimed): after the counting pass every count of every book's
\* table lies between 0 and the table's largest count, which is positive.
C7_FreqsInRange ==
    Counted =>
        \A b \in Books :
            DOMAIN freqs[b] # {} =>
                LET max_freq == Max({freqs[b][k] : k \in DOMAIN freqs[b]}) IN
                /\ max_freq > 0
                /\ \A k \in DOMAIN freqs[b] :
                    /\ 0 <= freqs[b][k]
                    /\ freqs[b][k] <= max_freq
                    /\ Log2Defined(freqs[b][k], max_freq)

\* C9 (as claimed): the mean behind the weight of a lemma has one term for
\* each book in which the lemma's count is not zero, and no other term.
C9_MeanOverNonZeroBooks ==
    pc \in {"scores", "done"} =>
        \A lex \in DOMAIN imatfs :
            Len(imatfs[lex]) = Cardinality({b \in Books : Get(freqs[b], lex) # 0})

\* C10: once calc_freqs has set up the window it holds the last min(k, W)
\* of the k rows counted so far over all the books, in stream order, W the
\* longest alternative of all the tokens; a match and a new book leave it so.
C10_Window ==
    (0 \in DOMAIN freqs) =>
        LET W == Max(UNION {{Len(tokens[t].tdefs[k]) : k \in 1..Len(tokens[t].tdefs)} :
                            t \in 1..Len(tokens)})
            k == Len(NonStop)
            n == IF k < W THEN k ELSE W
        IN /\ row_queue_len = W
           /\ row_queue = SubSeq(NonStop, k - n + 1, k)

\* three rows a with the token dbl = a a: the second match uses a row the
\* first one had consumed, and the first row has left the window
C10_Witness ==
    /\ tokens = Configs[3].tokens
    /\ stream = <<Row("a", "N"), Row("a", "N"), Row("a", "N")>>
    /\ Len(row_queue) = 2
    /\ Truthy(rows)
    /\ Get(freqs[0], "dbl") = 2

\* x <= y for the exact values of two records
XLeq(x, y) ==
    LET e == IF x.e < y.e THEN x.e ELSE y.e IN
    BigLeq(ShiftLeft(x.m, x.e - e), ShiftLeft(y.m, y.e - e))

\* k * x for a natural number k, given by its digits
XScale(k, x) == [m |-> BigMul(k, x.m), e |-> x.e]

\* the exact sum of the exact products atf * weight over the terms, atf = 0
\* for a term the book's table lacks
RECURSIVE ExactSum(_, _, _, _)
ExactSum(book_atfs, weights, terms, k) ==
    IF k = 0 THEN Zero
    ELSE XAdd(ExactSum(book_atfs, weights, terms, k - 1),
              IF terms[k] \in DOMAIN book_atfs
              THEN XMul(book_atfs[terms[k]], weights[terms[k]])
              ELSE Zero)

\* n * s lies within (n + 2) * 2^-53 of the exact sum, relatively
NearExact(s, exact, n) ==
    LET one == ShiftLeft(<<1>>, Precision) IN
    /\ XLeq(XScale(BigMulSmall(one, n, 0), s),
            XScale(BigAdd(one, <<n + 2>>), exact))
    /\ XLeq(XScale(BigMulSmall(one, 1, 0), XScale(<<1>>, exact)),
            XAdd(XScale(BigMulSmall(one, n, 0), s), XScale(<<n + 2>>, exact)))

TermOrders(n) == {p \in [1..n -> 1..n] : \A a, b \in 1..n : p[a] = p[b] => a = b}

Reordered(terms, p) == [k \in 1..Len(terms) |-> terms[p[k]]]

\* every term has a weight, and there is a term
TermsOk ==
    /\ motif_terms # <<>>
    /\ \A k \in 1..Len(motif_terms) : motif_terms[k] \in DOMAIN imatfs

\* the one term x with atf 1.0 and 0.5 and with the weight 0.25 gives the
\* scores 0.25 and 0.125
ScoreExample ==
    (/\ pc = "done"
     /\ motif_terms = <<"x">>
     /\ atfs[1]["x"] = Dbl(<<0, 0, 0, 128>>, -52)
     /\ atfs[2]["x"] = Dbl(<<0, 0, 0, 128>>, -53)
     /\ imatfs["x"] = Dbl(<<0, 0, 0, 128>>, -54))
    => /\ score[1] = Dbl(<<0, 0, 0, 128>>, -54)
       /\ score[2] = Dbl(<<0, 0, 0, 128>>, -55)

\* C8 (as claimed): for a list of n > 0 terms that all have a weight,
\* calc_scores ends without error, the score of each book is 1 / n times the
\* sum over the terms of atf * weight (to the rounding of the doubles), atf = 0
\* for a term the book's table lacks, every reordering of the terms gives
\* the same score, and the example holds.
C8_AnyOrder ==
    /\ TermsOk => pc # "error"
    /\ \A b \in DOMAIN score :
        LET n == Len(motif_terms) IN
        /\ TermsOk
        /\ NearExact(score[b], ExactSum(atfs[b], imatfs, motif_terms, n), n)
        /\ \A p \in TermOrders(n) :
            BookScore(atfs[b], imatfs, Reordered(motif_terms, p)) = score[b]
    /\ ScoreExample

\* C8 (amended): for a list of n > 0 terms that all have a weight,
\* calc_scores ends without error, the score of each book is 1 / n times the
\* sum over the terms of atf * weight to within the rounding of the doubles
\* (a relative error of (n + 2) * 2^-53), atf = 0 for a term the book's
\* table lacks, a reordering of at most two terms gives the same score (a
\* reordering of more terms is another list of terms, so its score lies
\* within the same rounding of the same sum), and the example holds exactly.
C8_Score ==
    /\ TermsOk => pc # "error"
    /\ \A b \in DOMAIN score :
        LET n == Len(motif_terms) IN
        /\ TermsOk
        /\ NearExact(score[b], ExactSum(atfs[b], imatfs, motif_terms, n), n)
        /\ n <= 2 =>
              \A p \in TermOrders(n) :
                BookScore(atfs[b], imatfs, Reordered(motif_terms, p)) = score[b]
    /\ ScoreExample

\* the terms x, y, z scored for a book that holds all three and for a book
\* that lacks z: 0.21306417552832682 and 0.16329116127290227
C8_Witness ==
    /\ pc = "done"
    /\ motif_terms = <<"x", "y", "z">>
    /\ DOMAIN atfs[1] = {"x", "y", "z"}
    /\ DOMAIN atfs[2] = {"x", "y"}
    /\ atfs[2]["x"] # atfs[1]["x"]
    /\ DOMAIN imatfs = {"x", "y", "z"}
    /\ score[1] = Dbl(<<29557, 12759, 5823, 218>>, -55)
    /\ score[2] = Dbl(<<19730, 5476, 6886, 167>>, -55)

==========================================================================
